---- MODULE Spec2Model ----
(***************************************************************************)
(* The CSV -> DynamoDB ingestion Lambda (src/using-aws-lambda/import.py):  *)
(* lambda_handler and save_unprocessed as a state machine, one action per  *)
(* I/O call or control step, with the S3 objects and the DynamoDB table as *)
(* state.  filter_nulls of the Glue job is kept as an operator.            *)
(***************************************************************************)
EXTENDS FiniteSets, Integers, Sequences, TLC

(* ------------------------------ bounds --------------------------------- *)

\* Longest CSV body (data rows) the model feeds to one run.
MaxRows == 3

\* batch_size of lambda_handler (import.py:60) is 25; it is scaled down here
\* so that several batches, full and partial, occur within MaxRows rows.
batch_size == 2

\* Direct calls of save_unprocessed: the longest item list of one call and
\* the number of calls made.
MaxItems == 2
MaxCalls == 3

(* --------------------------- program constants ------------------------- *)

\* `while retries <= 3`
max_retries == 3

(* ------------------------------ data ----------------------------------- *)

\* Python's None as a cell value (a short row: DictReader's restval).
None == "<None>"

\* The CSV header: the two key columns of make-csv.py's header.
Header == <<"account", "offer_id">>

\* Field names in the order sort_keys=True puts them.
SortedKeys == <<"account", "offer_id">>

\* The order in which the store's response lists an item's attributes, when it
\* is not the order of the request.
StoreKeys == <<"offer_id", "account">>

\* The data rows a CSV body is drawn from; a row is the sequence of its cells
\* (shorter than the header when trailing cells are missing).
RawRowUniverse ==
    { <<"1", "10">>, <<"", "11">>, <<"2", "">>, <<"2">>, <<"", "">> }

\* A record that an earlier run left in the ledger object.
OldRecord == << <<"account", "9">>, <<"offer_id", "90">> >>

RECURSIVE SeqsUpTo(_, _)
SeqsUpTo(S, n) ==
    IF n = 0 THEN { <<>> }
    ELSE LET shorter == SeqsUpTo(S, n - 1)
         IN  shorter \cup { Append(s, x) : s \in { t \in shorter : Len(t) = n - 1 }, x \in S }

\* s restricted to the positions in P, order kept.
Pick(s, P) ==
    LET idxs == SelectSeq([i \in 1..Len(s) |-> i], LAMBDA i : i \in P)
    IN  [j \in 1..Len(idxs) |-> s[idxs[j]]]

Range(s) == { s[i] : i \in 1..Len(s) }

\* The pairs of item in the order keys gives to their field names.
Ordered(item, keys) ==
    LET present == SelectSeq(keys, LAMBDA k : \E i \in 1..Len(item) : item[i][1] = k)
        at(k)   == CHOOSE i \in 1..Len(item) : item[i][1] = k
    IN  [j \in 1..Len(present) |-> <<present[j], item[at(present[j])][2]>>]

\* A dict as a mapping: the set of its <<key, value>> pairs, whatever their
\* order (structural equality of records is equality of these).
AsMapping(item) == Range(item)

Mappings(s) == { AsMapping(s[i]) : i \in 1..Len(s) }

(* ----------------------- pure functions of the code -------------------- *)

\* csv.DictReader: one dict per data row, header -> cell, None for a missing
\* cell.  A dict is the sequence of its <<key, value>> pairs in insertion order.
DictRow(raw) ==
    [i \in 1..Len(Header) |-> <<Header[i], IF i <= Len(raw) THEN raw[i] ELSE None>>]

\* The comprehension testing only `v is not None`.
cleaned_row_keep_empty(row) == SelectSeq(row, LAMBDA p : p[2] /= None)

\* {k: v for k, v in row.items() if v is not None and v != ''}
cleaned_row(row) == SelectSeq(row, LAMBDA p : p[2] /= None /\ p[2] /= "")

\* The parsing loop: cleaned rows, the empty ones left out.
ParseRows(body) ==
    SelectSeq([i \in 1..Len(body) |-> cleaned_row(DictRow(body[i]))],
              LAMBDA r : r /= <<>>)

\* json.dumps(item) without sort_keys: pairs in insertion order.
json_dumps_unsorted(item) == item

\* json.dumps(item, sort_keys=True): the item's pairs in key order.
json_dumps(item) == Ordered(item, SortedKeys)

\* filter_nulls of the Glue job: both key fields present and non-empty.
Field(rec, k) ==
    IF \E i \in 1..Len(rec) : rec[i][1] = k
    THEN rec[CHOOSE i \in 1..Len(rec) : rec[i][1] = k][2]
    ELSE None

filter_nulls(rec) ==
    /\ Field(rec, "account") /= None /\ Field(rec, "account") /= ""
    /\ Field(rec, "offer_id") /= None /\ Field(rec, "offer_id") /= ""

\* {'PutRequest': {'Item': item}}
PutRequest(item) == [PutRequest |-> [Item |-> item]]

\* The slice one too long: rows[idx:idx + batch_size + 1].
SliceOverlap(s, from, size) ==
    SubSeq(s, from + 1, IF from + size + 1 < Len(s) THEN from + size + 1 ELSE Len(s))

\* rows[idx:idx + batch_size]
Slice(s, from, size) ==
    SubSeq(s, from + 1, IF from + size < Len(s) THEN from + size ELSE Len(s))

\* The loop condition off by one: `while retries <= 4`.
LoopCondOffByOne(r) == r <= max_retries + 1

\* `while retries <= 3`
LoopCond(r) == r <= max_retries

\* 2 ** retries
Backoff(r) == 2 ^ r

\* The step of range(0, len(rows), batch_size) not taken: idx stays.
NextIdxStuck(i) == i

\* The step of range(0, len(rows), batch_size).
NextIdx(i) == i + batch_size

\* The range one batch short: range(0, len(rows) - batch_size, batch_size).
LoopDoneEarly(i, n) == i >= n - batch_size

\* range(0, len(rows), batch_size) is used up.
LoopDone(i, n) == i >= n

\* Line 76 left out: the whole request is submitted again.
NextRequestWhole(req, u) == req

\* request_items = {table_name: unp}
NextRequest(req, u) == u

(* ------------------------------ state ---------------------------------- *)

VARIABLES
    csv_body,          \* data rows of the S3 object named by the event
    decodable,         \* whether decode('utf-8-sig') / csv parsing succeeds
    store_reorders,    \* the store's response lists attributes in its own order (StoreKeys)
    pc,                \* position in lambda_handler / save_unprocessed
    caller,            \* who called save_unprocessed: "lambda_handler" or "test"
    rows,              \* cleaned rows
    idx,               \* loop variable of `for idx in range(0, len(rows), batch_size)`
    request_items,     \* RequestItems[table_name]
    retries,
    unp,               \* resp['UnprocessedItems'][table_name]
    unprocessed_items,
    items,             \* save_unprocessed: parameter
    existing,          \* save_unprocessed: local
    ledger,            \* S3 object unprocessed/<fname>.unprocessed.json
    json_copy,         \* S3 object json-copy/<fname>.json
    ddb,               \* DynamoDB table: the items committed, as mappings
    response,          \* value returned by lambda_handler
    \* history of the run, read by the properties only
    ledger_before,     \* the ledger object as the run found it
    batch,             \* the records of the batch being processed
    submissions,       \* batch_write_item calls made for the current batch
    sleeps,            \* durations of the time.sleep calls of the current batch
    all_rejected,      \* every submission of the current batch had every item rejected
    total_submissions, \* batch_write_item calls of the run
    batches_started,
    exhausted,         \* batches that left the retry loop by its condition
    still_rejected,    \* records rejected by the last submission of an exhausted batch
    ledger_reads,
    ledger_writes,
    ledger_read_failed,\* some read of the ledger raised something else than NoSuchKey
    artifact_writes,
    raised,            \* the call that raised into the outer except, or "none"
    started,           \* the batches in the order of their first submission: idx and records
    resolved,          \* batches committed whole, or exhausted with their rejected records saved
    conc               \* concurrent calls of save_unprocessed on one ledger key: pc and locals

handler_vars ==
    << rows, idx, request_items, retries, unp, unprocessed_items >>

save_vars == << items, existing >>

input_vars == << csv_body, decodable, store_reorders >>

history_vars ==
    << ledger_before, batch, submissions, sleeps, all_rejected, total_submissions, batches_started,
       exhausted, still_rejected, ledger_reads, ledger_writes, ledger_read_failed,
       artifact_writes >>

order_vars == << started, resolved >>

vars ==
    << input_vars, pc, caller, handler_vars, save_vars, ledger, json_copy, ddb,
       response, history_vars, raised, order_vars, conc >>

LedgerKey == "unprocessed/data.csv.unprocessed.json"

NoResponse == [statusCode |-> 0, processed_rows |-> 0, unprocessed_rows |-> 0,
               unprocessed_file |-> "null"]

ErrorResponse(code) == [statusCode |-> code, processed_rows |-> 0, unprocessed_rows |-> 0,
                        unprocessed_file |-> "null"]

NoObject == [exists |-> FALSE, body |-> <<>>]

Object(body) == [exists |-> TRUE, body |-> body]

\* The state of everything but the inputs, the ledger object and pc.
Fresh ==
    /\ rows = <<>> /\ idx = 0 /\ request_items = <<>> /\ retries = 0 /\ unp = <<>>
    /\ unprocessed_items = <<>>
    /\ items = <<>> /\ existing = <<>>
    /\ json_copy = NoObject
    /\ ddb = {}
    /\ response = NoResponse
    /\ batch = <<>> /\ submissions = 0 /\ sleeps = <<>> /\ all_rejected = TRUE
    /\ total_submissions = 0 /\ batches_started = 0
    /\ exhausted = 0 /\ still_rejected = <<>>
    /\ ledger_reads = 0 /\ ledger_writes = 0 /\ ledger_read_failed = FALSE
    /\ artifact_writes = 0
    /\ raised = "none"
    /\ started = <<>> /\ resolved = 0

\* One invocation of lambda_handler on any CSV body within the bounds, the
\* ledger object absent or left by an earlier run.
Init ==
    /\ csv_body \in SeqsUpTo(RawRowUniverse, MaxRows)
    /\ decodable \in BOOLEAN
    /\ store_reorders \in BOOLEAN
    /\ ledger \in { NoObject, Object(<<OldRecord>>) }
    /\ ledger_before = ledger
    /\ pc = "get_csv"
    /\ caller = "lambda_handler"
    /\ conc = <<>>
    /\ Fresh

(* ------------------------- lambda_handler ------------------------------ *)

\* The exception caught and the failed call made again.
RaiseRetried(what) ==
    /\ response' = response
    /\ raised' = what
    /\ pc' = pc

\* The outer `except Exception`: statusCode 500.
Raise(what) ==
    /\ response' = ErrorResponse(500)
    /\ raised' = what
    /\ pc' = "done"

\* s3client.get_object(Bucket=bucket, Key=key)
GetCsv ==
    /\ pc = "get_csv"
    /\ pc' = "parse"
    /\ UNCHANGED << input_vars, caller, handler_vars, save_vars, ledger, json_copy, ddb,
                    response, history_vars, raised >>
    /\ UNCHANGED << order_vars, conc >>

GetCsvRaises ==
    /\ pc = "get_csv"
    /\ Raise("get_csv")
    /\ UNCHANGED << input_vars, caller, handler_vars, save_vars, ledger, json_copy, ddb,
                    history_vars >>
    /\ UNCHANGED << order_vars, conc >>

\* The inner try: decode, DictReader, the cleaning loop.
Parse ==
    /\ pc = "parse"
    /\ decodable
    /\ rows' = ParseRows(csv_body)
    /\ pc' = "loop"
    /\ UNCHANGED << input_vars, caller, idx, request_items, retries, unp, unprocessed_items,
                    save_vars, ledger, json_copy, ddb, response, history_vars, raised >>
    /\ UNCHANGED << order_vars, conc >>

\* The inner except without its return: the run goes on with no rows.
ParseErrorSwallowed ==
    /\ pc = "parse"
    /\ ~decodable
    /\ rows' = <<>>
    /\ pc' = "loop"
    /\ UNCHANGED << input_vars, caller, idx, request_items, retries, unp, unprocessed_items,
                    save_vars, ledger, json_copy, ddb, response, history_vars, raised >>
    /\ UNCHANGED << order_vars, conc >>

\* The inner `except Exception`: statusCode 400.
ParseError ==
    /\ pc = "parse"
    /\ ~decodable
    /\ response' = ErrorResponse(400)
    /\ pc' = "done"
    /\ UNCHANGED << input_vars, caller, handler_vars, save_vars, ledger, json_copy, ddb,
                    history_vars, raised >>
    /\ UNCHANGED << order_vars, conc >>

\* Head of the for loop: the next batch and its request, or the loop's end.
NextBatch ==
    /\ pc = "loop"
    /\ ~LoopDone(idx, Len(rows))
    /\ batch' = Slice(rows, idx, batch_size)
    /\ started' = Append(started, [from |-> idx, records |-> batch'])
    /\ UNCHANGED << resolved, conc >>
    /\ request_items' = [i \in 1..Len(batch') |-> PutRequest(batch'[i])]
    /\ retries' = 0
    /\ submissions' = 0
    /\ sleeps' = <<>>
    /\ all_rejected' = TRUE
    /\ batches_started' = batches_started + 1
    /\ pc' = IF LoopCond(0) THEN "submit" ELSE "after"
    /\ UNCHANGED << input_vars, caller, rows, idx, unp, unprocessed_items, save_vars, ledger,
                    json_copy, ddb, response, ledger_before, total_submissions, exhausted,
                    still_rejected,
                    ledger_reads, ledger_writes, ledger_read_failed, artifact_writes, raised >>

LoopEnd ==
    /\ pc = "loop"
    /\ LoopDone(idx, Len(rows))
    /\ pc' = "report"
    /\ UNCHANGED << input_vars, caller, handler_vars, save_vars, ledger, json_copy, ddb,
                    response, history_vars, raised >>
    /\ UNCHANGED << order_vars, conc >>

\* The items as the store sends them back.
Echo(req) ==
    IF store_reorders
    THEN [i \in 1..Len(req) |-> PutRequest(Ordered(req[i].PutRequest.Item, StoreKeys))]
    ELSE req

\* batch_write_item and lines 71-77: the store rejects the items at the
\* positions P of the request and commits the others.
Submit ==
    /\ pc = "submit"
    /\ \E P \in SUBSET (1..Len(request_items)) :
          /\ unp' = Pick(Echo(request_items), P)
          /\ ddb' = ddb \cup { AsMapping(request_items[i].PutRequest.Item) :
                                 i \in (1..Len(request_items)) \ P }
          /\ all_rejected' = (all_rejected /\ P = 1..Len(request_items))
          /\ IF unp' = <<>>
             THEN /\ pc' = "after"
                  /\ UNCHANGED << request_items, retries >>
             ELSE /\ request_items' = NextRequest(request_items, unp')
                  /\ retries' = retries + 1
                  /\ pc' = "sleep"
    /\ submissions' = submissions + 1
    /\ total_submissions' = total_submissions + 1
    /\ UNCHANGED << input_vars, caller, rows, idx, unprocessed_items, save_vars, ledger,
                    json_copy, response, ledger_before, batch, sleeps, batches_started, exhausted,
                    still_rejected, ledger_reads, ledger_writes, ledger_read_failed,
                    artifact_writes, raised >>
    /\ UNCHANGED << order_vars, conc >>

SubmitRaises ==
    /\ pc = "submit"
    /\ Raise("batch_write_item")
    /\ submissions' = submissions + 1
    /\ total_submissions' = total_submissions + 1
    /\ UNCHANGED << input_vars, caller, handler_vars, save_vars, ledger, json_copy, ddb,
                    ledger_before, batch, sleeps, all_rejected, batches_started, exhausted,
                    still_rejected, ledger_reads, ledger_writes, ledger_read_failed,
                    artifact_writes >>
    /\ UNCHANGED << order_vars, conc >>

\* time.sleep(2 ** retries), then the loop condition.
Sleep ==
    /\ pc = "sleep"
    /\ sleeps' = Append(sleeps, Backoff(retries))
    /\ IF LoopCond(retries)
       THEN /\ pc' = "submit"
            /\ UNCHANGED << exhausted, still_rejected >>
       ELSE /\ pc' = "after"
            /\ exhausted' = exhausted + 1
            /\ still_rejected' =
                 still_rejected \o [i \in 1..Len(unp) |-> AsMapping(unp[i].PutRequest.Item)]
    /\ UNCHANGED << input_vars, caller, handler_vars, save_vars, ledger, json_copy, ddb,
                    response, ledger_before, batch, submissions, all_rejected,
                    total_submissions, batches_started, ledger_reads, ledger_writes,
                    ledger_read_failed, artifact_writes, raised >>
    /\ UNCHANGED << order_vars, conc >>

\* The test inverted: `if not unp:`.
HasUnprocessedInverted(u) == u = <<>>

\* The test dropped: save_unprocessed called for every batch.
HasUnprocessedAlways(u) == TRUE

\* `if unp:`
HasUnprocessed(u) == u /= <<>>

\* Lines 82-84: the call of save_unprocessed, or on to the next batch.
AfterLoop ==
    /\ pc = "after"
    /\ IF HasUnprocessed(unp)
       THEN /\ items' = [i \in 1..Len(unp) |-> unp[i].PutRequest.Item]
            /\ caller' = "lambda_handler"
            /\ pc' = "save_read"
            /\ UNCHANGED << idx, resolved >>
       ELSE /\ idx' = NextIdx(idx)
            /\ resolved' = resolved + 1
            /\ pc' = "loop"
            /\ UNCHANGED << items, caller >>
    /\ UNCHANGED << started, conc >>
    /\ UNCHANGED << input_vars, rows, request_items, retries, unp, unprocessed_items,
                    existing, ledger, json_copy, ddb, response, history_vars, raised >>

\* unprocessed_items.extend(items), and the loop's step.
ExtendUnprocessed ==
    /\ pc = "extend"
    /\ unprocessed_items' = unprocessed_items \o items
    /\ idx' = NextIdx(idx)
    /\ pc' = "loop"
    /\ UNCHANGED << input_vars, caller, rows, request_items, retries, unp, save_vars, ledger,
                    json_copy, ddb, response, history_vars, raised >>
    /\ UNCHANGED << order_vars, conc >>

\* Line 94 comparing json.dumps(item) without sort_keys.
processed_items_unsorted(all, unprocessed) ==
    SelectSeq(all, LAMBDA item :
        json_dumps_unsorted(item) \notin
            { json_dumps_unsorted(unprocessed[i]) : i \in 1..Len(unprocessed) })

\* Lines 93-95 without the test of line 94: every row is kept.
processed_items_everything(all, unprocessed) == all

\* Lines 90-95.
unprocessed_item_set(unprocessed) == { json_dumps(unprocessed[i]) : i \in 1..Len(unprocessed) }

processed_items(all, unprocessed) ==
    SelectSeq(all, LAMBDA item : json_dumps(item) \notin unprocessed_item_set(unprocessed))

\* "unprocessed_file": ... if unprocessed_items else None
unprocessed_file(unprocessed) == IF unprocessed /= <<>> THEN LedgerKey ELSE "null"

\* Lines 97-114: the JSON copy and the success result.
Report ==
    /\ pc = "report"
    /\ json_copy' = Object(processed_items(rows, unprocessed_items))
    /\ artifact_writes' = artifact_writes + 1
    /\ response' = [statusCode |-> 200,
                    processed_rows |-> Len(processed_items(rows, unprocessed_items)),
                    unprocessed_rows |-> Len(unprocessed_items),
                    unprocessed_file |-> unprocessed_file(unprocessed_items)]
    /\ pc' = "done"
    /\ UNCHANGED << input_vars, caller, handler_vars, save_vars, ledger, ddb, ledger_before,
                    batch, submissions, sleeps, all_rejected, total_submissions, batches_started,
                    exhausted, still_rejected, ledger_reads, ledger_writes,
                    ledger_read_failed, raised >>
    /\ UNCHANGED << order_vars, conc >>

ReportRaises ==
    /\ pc = "report"
    /\ Raise("put_json_copy")
    /\ UNCHANGED << input_vars, caller, handler_vars, save_vars, ledger, json_copy, ddb,
                    history_vars >>
    /\ UNCHANGED << order_vars, conc >>

(* ------------------------- save_unprocessed ---------------------------- *)

\* Line 128 and its two except clauses: the object's body, or [] when the
\* key does not exist, or [] when the read raises anything else.
SaveRead ==
    /\ pc = "save_read"
    /\ existing' = IF ledger.exists THEN ledger.body ELSE <<>>
    /\ ledger_reads' = ledger_reads + 1
    /\ pc' = "save_write"
    /\ UNCHANGED << input_vars, caller, handler_vars, items, ledger, json_copy, ddb, response,
                    ledger_before, batch, submissions, sleeps, all_rejected, total_submissions,
                    batches_started, exhausted, still_rejected, ledger_writes,
                    ledger_read_failed, artifact_writes, raised >>
    /\ UNCHANGED << order_vars, conc >>

SaveReadRaises ==
    /\ pc = "save_read"
    /\ existing' = <<>>
    /\ ledger_reads' = ledger_reads + 1
    /\ ledger_read_failed' = TRUE
    /\ pc' = "save_write"
    /\ UNCHANGED << input_vars, caller, handler_vars, items, ledger, json_copy, ddb, response,
                    ledger_before, batch, submissions, sleeps, all_rejected, total_submissions,
                    batches_started, exhausted, still_rejected, ledger_writes,
                    artifact_writes, raised >>
    /\ UNCHANGED << order_vars, conc >>

\* existing.extend(items)
Merged(old, new) == old \o new

\* Lines 135-136, and the return to the caller.
SaveWrite ==
    /\ pc = "save_write"
    /\ existing' = Merged(existing, items)
    /\ ledger' = Object(existing')
    /\ ledger_writes' = ledger_writes + 1
    /\ pc' = IF caller = "lambda_handler" THEN "extend" ELSE "idle"
    /\ resolved' = IF caller = "lambda_handler" THEN resolved + 1 ELSE resolved
    /\ UNCHANGED << started, conc >>
    /\ UNCHANGED << input_vars, caller, handler_vars, items, json_copy, ddb, response,
                    ledger_before, batch, submissions, sleeps, all_rejected, total_submissions,
                    batches_started, exhausted, still_rejected, ledger_reads,
                    ledger_read_failed, artifact_writes, raised >>

\* put_object raises: save_unprocessed catches nothing here.
SaveWriteRaises ==
    /\ pc = "save_write"
    /\ existing' = Merged(existing, items)
    /\ IF caller = "lambda_handler"
       THEN Raise("put_ledger")
       ELSE /\ pc' = "idle"
            /\ raised' = "put_ledger"
            /\ UNCHANGED response
    /\ UNCHANGED << input_vars, caller, handler_vars, items, ledger, json_copy, ddb,
                    history_vars >>
    /\ UNCHANGED << order_vars, conc >>

Next ==
    \/ GetCsv \/ GetCsvRaises
    \/ Parse \/ ParseError
    \/ NextBatch \/ LoopEnd
    \/ Submit \/ SubmitRaises
    \/ Sleep
    \/ AfterLoop
    \/ SaveRead \/ SaveReadRaises
    \/ SaveWrite \/ SaveWriteRaises
    \/ ExtendUnprocessed
    \/ Report \/ ReportRaises

Spec == Init /\ [][Next]_vars

(* ------------------- save_unprocessed called directly ------------------ *)

\* The records a direct call passes.
ItemUniverse ==
    { << <<"account", "1">>, <<"offer_id", "10">> >>, << <<"offer_id", "11">> >> }

InitLedger ==
    /\ csv_body = <<>>
    /\ decodable = TRUE
    /\ store_reorders = FALSE
    /\ ledger \in { NoObject, Object(<<OldRecord>>) }
    /\ ledger_before = ledger
    /\ pc = "idle"
    /\ caller = "test"
    /\ conc = <<>>
    /\ Fresh

\* save_unprocessed(bucket, fname, its), for any list its, the empty one included.
CallSave ==
    /\ pc = "idle"
    /\ ledger_reads < MaxCalls
    /\ \E its \in SeqsUpTo(ItemUniverse, MaxItems) : items' = its
    /\ existing' = <<>>
    /\ raised' = "none"
    /\ pc' = "save_read"
    /\ UNCHANGED << input_vars, caller, handler_vars, ledger, json_copy, ddb, response,
                    history_vars >>
    /\ UNCHANGED << order_vars, conc >>

NextLedger ==
    \/ CallSave
    \/ SaveRead \/ SaveReadRaises
    \/ SaveWrite \/ SaveWriteRaises

SpecLedger == InitLedger /\ [][NextLedger]_vars

(* ------------- two runs calling save_unprocessed on one key ------------ *)

\* Two invocations for input objects of the same file name, each at its call
\* of save_unprocessed with the records its batch was left with.
Runs == { 1, 2 }

run_vars ==
    << input_vars, pc, caller, handler_vars, save_vars, json_copy, ddb, response,
       history_vars, raised, order_vars >>

InitConc ==
    /\ csv_body = <<>>
    /\ decodable = TRUE
    /\ store_reorders = FALSE
    /\ ledger \in { NoObject, Object(<<OldRecord>>) }
    /\ ledger_before = ledger
    /\ pc = "concurrent"
    /\ caller = "lambda_handler"
    /\ Fresh
    /\ conc \in [Runs -> { [pc |-> "save_read", items |-> its, existing |-> <<>>,
                            failed |-> FALSE] :
                              its \in SeqsUpTo(ItemUniverse, MaxItems) \ { <<>> } }]

\* Line 128 and `except NoSuchKey`, in run r.
ConcRead(r) ==
    /\ conc[r].pc = "save_read"
    /\ conc' = [conc EXCEPT ![r].existing = IF ledger.exists THEN ledger.body ELSE <<>>,
                            ![r].pc = "save_write"]
    /\ UNCHANGED << run_vars, ledger >>

\* Line 128 raising something else, in run r.
ConcReadRaises(r) ==
    /\ conc[r].pc = "save_read"
    /\ conc' = [conc EXCEPT ![r].existing = <<>>, ![r].failed = TRUE,
                            ![r].pc = "save_write"]
    /\ UNCHANGED << run_vars, ledger >>

\* Lines 135-136, in run r.
ConcWrite(r) ==
    /\ conc[r].pc = "save_write"
    /\ ledger' = Object(Merged(conc[r].existing, conc[r].items))
    /\ conc' = [conc EXCEPT ![r].existing = Merged(conc[r].existing, conc[r].items),
                            ![r].pc = "returned"]
    /\ UNCHANGED run_vars

\* Line 136 raising, in run r.
ConcWriteRaises(r) ==
    /\ conc[r].pc = "save_write"
    /\ conc' = [conc EXCEPT ![r].existing = Merged(conc[r].existing, conc[r].items),
                            ![r].failed = TRUE,
                            ![r].pc = "raised"]
    /\ UNCHANGED << run_vars, ledger >>

NextConc ==
    \E r \in Runs :
        \/ ConcRead(r) \/ ConcReadRaises(r)
        \/ ConcWrite(r) \/ ConcWriteRaises(r)

SpecConc == InitConc /\ [][NextConc]_vars

(* ------------------------------ properties ----------------------------- *)

InBatch == pc \in { "submit", "sleep", "after", "save_read", "save_write", "extend" }

Succeeded == pc = "done" /\ response.statusCode = 200

\* C1 (retry ceiling): a batch is submitted at most 4 times; a batch whose
\* every submission had every item rejected leaves the retry loop after exactly
\* 4 submissions, the records handed to save_unprocessed are the records of the
\* batch, in order, and they are the tail of the ledger object once written.
RetryCeiling ==
    /\ submissions <= 4
    /\ (InBatch /\ pc \notin { "submit", "sleep" } /\ all_rejected /\ raised = "none")
          => submissions = 4
    /\ (pc \in { "save_read", "save_write", "extend" } /\ all_rejected)
          => /\ Len(items) = Len(batch)
             /\ \A i \in 1..Len(batch) : AsMapping(items[i]) = AsMapping(batch[i])
    /\ (pc = "extend" /\ all_rejected)
          => LET n == Len(ledger.body)
             IN  /\ n >= Len(batch)
                 /\ \A i \in 1..Len(batch) :
                       AsMapping(ledger.body[n - Len(batch) + i]) = AsMapping(batch[i])

\* C1 witness: a full batch rejected whole four times and saved.
RetryCeilingWitness ==
    /\ pc = "extend" /\ all_rejected /\ submissions = 4
    /\ Len(batch) = batch_size
    /\ store_reorders

\* C2 (backoff schedule): the i-th wait of a batch lasts 2^i; a batch that has
\* left the retry loop has waited once less than it has submitted (no wait
\* follows its last submission), so a batch rejected whole every time has
\* waited exactly 2, 4, 8.
BackoffSchedule ==
    /\ \A i \in 1..Len(sleeps) : sleeps[i] = 2 ^ i
    /\ (pc = "after") => Len(sleeps) = submissions - 1
    /\ (pc = "after" /\ all_rejected) => sleeps = <<2, 4, 8>>

\* C3 (exhaustion is not failure): a run in which parsing succeeds and no call
\* raises returns status 200, whatever the store rejected; unprocessed_file is
\* set and unprocessed_rows is positive exactly when some record was still
\* rejected when its batch left the retry loop, and otherwise they are null and 0.
ExhaustionIsNotFailure ==
    /\ (decodable /\ raised = "none") => response.statusCode \in { 0, 200 }
    /\ (pc = "done" /\ decodable /\ raised = "none")
          => /\ response.statusCode = 200
             /\ (still_rejected /= <<>>) <=> (response.unprocessed_file /= "null")
             /\ (still_rejected /= <<>>) <=> (response.unprocessed_rows > 0)
             /\ (still_rejected = <<>>)
                   => (response.unprocessed_file = "null" /\ response.unprocessed_rows = 0)

\* C3 witness: a successful run that exhausted the retries of a batch although
\* the store committed part of it, one ledger read having failed on the way.
ExhaustionIsNotFailureWitness ==
    /\ Succeeded
    /\ exhausted > 0
    /\ ddb /= {}
    /\ ledger_read_failed
    /\ response.unprocessed_rows > 0
    /\ response.unprocessed_file = LedgerKey

\* C4 (reconciliation): in a successful run the records of the JSON copy and
\* the accumulated unprocessed records are disjoint as mappings, and together
\* they are the normalized records of the run.
Reconciliation ==
    Succeeded =>
        /\ json_copy.exists
        /\ Mappings(json_copy.body) \cap Mappings(unprocessed_items) = {}
        /\ Mappings(json_copy.body) \cup Mappings(unprocessed_items) = Mappings(rows)

\* C4 witness: a successful run with duplicate rows, a processed record, and an
\* unprocessed record whose keys came back in another order than the row's.
ReconciliationWitness ==
    /\ Succeeded
    /\ json_copy.body /= <<>>
    /\ \E i \in 1..Len(unprocessed_items) : unprocessed_items[i] \notin Range(rows)
    /\ \E i, j \in 1..Len(rows) : i /= j /\ rows[i] = rows[j]

\* C5 (ledger is append-only): no step removes a record from the ledger object.
LedgerAppendOnly ==
    [][Mappings(ledger.body) \subseteq Mappings(ledger'.body)]_vars

\* C6 (partial rejection accounting): after a successful run on pairwise
\* distinct records that found no ledger object, the ledger object holds the
\* records still rejected at exhaustion, each once and nothing else,
\* unprocessed_rows is their number and processed_rows the number of the others.
PairwiseDistinct(s) == \A i, j \in 1..Len(s) : i /= j => AsMapping(s[i]) /= AsMapping(s[j])

PartialRejectionAccounting ==
    (Succeeded /\ PairwiseDistinct(rows) /\ ~ledger_before.exists)
        => /\ Len(ledger.body) = Len(still_rejected)
           /\ Mappings(ledger.body) = Range(still_rejected)
           /\ response.unprocessed_rows = Len(still_rejected)
           /\ response.processed_rows = Len(rows) - Len(still_rejected)

\* C7 (parse failure is terminal): a run whose input does not parse returns
\* status 400 and has made no write submission, no ledger read or write and no
\* JSON copy.
ParseFailureTerminal ==
    /\ (pc = "done" /\ ~decodable /\ raised = "none") => response.statusCode = 400
    /\ ~decodable
          => /\ response.statusCode \in { 0, 400, 500 }
             /\ total_submissions = 0 /\ ddb = {}
             /\ ledger_reads = 0 /\ ledger_writes = 0 /\ ledger = ledger_before
             /\ artifact_writes = 0 /\ ~json_copy.exists

\* C7 witness: the 400 result for a body with data rows and an existing ledger object.
ParseFailureTerminalWitness ==
    /\ pc = "done" /\ response.statusCode = 400
    /\ csv_body /= <<>>
    /\ ledger.exists

\* C8 as stated (ledger I/O once per run): the ledger object is read at most
\* once and written at most once, the write after the last batch has resolved.
LedgerIOOncePerRun ==
    /\ ledger_reads <= 1
    /\ ledger_writes <= 1
    /\ (ledger_writes > 0) => idx + batch_size >= Len(rows)

\* C8 amended (ledger I/O once per exhausted batch): every batch that leaves
\* the retry loop with rejected items is followed, before the next batch is
\* submitted, by one read and then one write of the ledger object; a batch
\* that was committed whole causes neither.
LedgerIOPerExhaustedBatch ==
    /\ ledger_reads <= exhausted
    /\ ledger_writes <= ledger_reads
    /\ ledger_reads <= ledger_writes + 1
    /\ (pc \in { "loop", "submit", "sleep", "report" })
          => (ledger_reads = exhausted /\ ledger_writes = exhausted)
    /\ (pc = "save_write") => ledger_reads = ledger_writes + 1
    /\ Succeeded => (ledger_reads = exhausted /\ ledger_writes = exhausted)

\* C8 witness: a successful run that read and wrote the ledger object twice.
LedgerIOPerExhaustedBatchWitness ==
    /\ Succeeded
    /\ ledger_reads = 2 /\ ledger_writes = 2
    /\ batches_started = 2

\* C9 (empty append is a no-op): while the record set of the call is empty, no
\* step reads or writes the ledger object.
EmptyAppendNoIO ==
    [][(items = <<>>)
          => (ledger' = ledger /\ ledger_reads' = ledger_reads
                               /\ ledger_writes' = ledger_writes)]_vars

\* C10 (required-key filtering): every normalized record has a non-empty
\* account and offer_id; the three-row example, the store committing
\* everything, ends with processed_rows 1, unprocessed_rows 0 and no
\* unprocessed file.
ExampleBody == << <<"1", "10">>, <<"", "11">>, <<"2", "">> >>

RequiredKeyFiltering ==
    /\ \A i \in 1..Len(rows) : filter_nulls(rows[i])
    /\ (Succeeded /\ csv_body = ExampleBody /\ exhausted = 0)
          => /\ response.processed_rows = 1
             /\ response.unprocessed_rows = 0
             /\ response.unprocessed_file = "null"

\* C11 (batching partitions the input): the batches, in the order of their
\* first submission, concatenate to a prefix of the normalized records, and to
\* all of them once the loop has ended; they start at 0, batch_size,
\* 2*batch_size, ...; each has between 1 and batch_size records and each but
\* the last exactly batch_size.
RECURSIVE Flatten(_)
Flatten(ss) == IF ss = <<>> THEN <<>> ELSE Head(ss).records \o Flatten(Tail(ss))

BatchingPartitions ==
    /\ Len(Flatten(started)) <= Len(rows)
    /\ Flatten(started) = SubSeq(rows, 1, Len(Flatten(started)))
    /\ \A k \in 1..Len(started) :
          /\ started[k].from = (k - 1) * batch_size
          /\ Len(started[k].records) >= 1
          /\ Len(started[k].records) <= batch_size
          /\ (k < Len(started)) => Len(started[k].records) = batch_size
    /\ (pc = "report" \/ Succeeded) => Flatten(started) = rows

\* C11 witness: a successful run of a full batch followed by a shorter one.
BatchingPartitionsWitness ==
    /\ Succeeded
    /\ Len(started) = 2
    /\ Len(started[1].records) = batch_size
    /\ Len(started[2].records) < batch_size

\* C12 (empty-field stripping): the normalized records are, in order, the
\* non-empty cells of the data rows that have any, so a row of empty cells
\* gives no record; and every record of a batch, a request, a response, the
\* table, the ledger object and the JSON copy has a field and no empty value.
NonEmptyCells(raw) ==
    { <<Header[j], raw[j]>> : j \in { i \in 1..Len(raw) : raw[i] /= "" /\ raw[i] /= None } }

WellFormed(m) == m /= {} /\ \A f \in m : f[2] /= "" /\ f[2] /= None

OnlyRejectedRetried ==
    /\ (pc = "submit" /\ submissions = 0)
          => request_items = [i \in 1..Len(batch) |-> PutRequest(batch[i])]
    /\ (pc = "submit" /\ submissions > 0)
          => /\ request_items = unp
             /\ unp /= <<>>
    /\ (pc \in { "submit", "sleep" })
          => /\ Len(request_items) <= Len(batch)
             /\ \A i \in 1..Len(request_items) :
                   AsMapping(request_items[i].PutRequest.Item) \in Mappings(batch)
    /\ (caller = "lambda_handler" /\ pc \in { "save_read", "save_write", "extend" })
          => /\ items = [i \in 1..Len(unp) |-> unp[i].PutRequest.Item]
             /\ Mappings(items) \subseteq Mappings(batch)
             /\ Len(items) <= Len(still_rejected)
             /\ \A i \in 1..Len(items) :
                   AsMapping(items[i]) = still_rejected[Len(still_rejected) - Len(items) + i]

\* C13 witness: a batch of which a proper part was still rejected by the 4th
\* submission, saved.
OnlyRejectedRetriedWitness ==
    /\ pc = "extend"
    /\ submissions = 4
    /\ Len(items) >= 1 /\ Len(items) < Len(batch)

\* C14 (sequential ordering): a submission is made only for the batch started
\* last, all batches before it being resolved (committed whole, or exhausted
\* with the ledger object written); the JSON copy is written at most once,
\* once in a successful run, and only when every batch has resolved.
NumBatches == (Len(rows) + batch_size - 1) \div batch_size

SequentialOrdering ==
    /\ [](/\ resolved <= Len(started)
          /\ Len(started) <= resolved + 1
          /\ (pc \in { "submit", "sleep", "after", "save_read", "save_write" })
                => resolved = Len(started) - 1
          /\ (pc \in { "loop", "report", "extend" }) => resolved = Len(started)
          /\ (resolved = Len(started)) => ledger_writes = exhausted
          /\ artifact_writes <= 1
          /\ Succeeded => artifact_writes = 1
          /\ (artifact_writes = 1) => (resolved = NumBatches /\ Len(started) = NumBatches))
    /\ [][(total_submissions' /= total_submissions) => resolved = Len(started) - 1]_vars
    /\ [][(artifact_writes' /= artifact_writes)
             => (artifact_writes = 0 /\ resolved = NumBatches)]_vars

\* C14 witness: a successful run of two batches, one committed and one exhausted.
SequentialOrderingWitness ==
    /\ Succeeded
    /\ resolved = 2 /\ exhausted = 1
    /\ artifact_writes = 1

\* C15 (termination): the handler's steps keep being taken, so the run ends
\* with one result, which then stays; when nothing raised, every batch has
\* resolved by then; a resolved batch stays resolved and a batch is started
\* only beyond all batches started before.
FairSpec == Spec /\ WF_vars(Next)

Termination ==
    /\ <>[](pc = "done" /\ response.statusCode \in { 200, 400, 500 })
    /\ []((pc = "done" /\ decodable /\ raised = "none")
             => (resolved = NumBatches /\ Len(started) = NumBatches))
    /\ [][pc /= "done"]_vars
    /\ [][(response.statusCode /= 0) => response' = response]_vars
    /\ [][resolved' >= resolved]_vars
    /\ [][(started' /= started)
             => (/\ resolved = Len(started)
                 /\ \A k \in 1..Len(started) : started[k].from < idx)]_vars

\* C15 witness: a run ended after two batches, the first exhausted.
TerminationWitness ==
    /\ Succeeded
    /\ resolved = 2
    /\ Len(still_rejected) = batch_size

ConcurrentAppendsKept ==
    (\A r \in DOMAIN conc : conc[r].pc = "returned" /\ ~conc[r].failed)
        => /\ \A r \in DOMAIN conc : Mappings(conc[r].items) \subseteq Mappings(ledger.body)
           /\ Mappings(ledger_before.body) \subseteq Mappings(ledger.body)

\* C18 (processed implies committed): in a successful run every record of the
\* JSON copy was committed by the store in some submission of the run, and no
\* record still rejected at exhaustion is in the copy.
ProcessedImpliesCommitted ==
    Succeeded =>
        /\ Mappings(json_copy.body) \subseteq ddb
        /\ Mappings(json_copy.body) \cap Range(still_rejected) = {}

\* C18 witness: a successful run with a record in the JSON copy and a record
\* that one submission committed while its duplicate was rejected to exhaustion.
ProcessedImpliesCommittedWitness ==
    /\ Succeeded
    /\ json_copy.body /= <<>>
    /\ ddb \cap Range(still_rejected) /= {}

\* C19 (count conservation): in a successful run processed_rows and
\* unprocessed_rows add up to the number of normalized records.
CountConservation ==
    Succeeded => response.processed_rows + response.unprocessed_rows = Len(rows)

====
